---- MODULE Spec2Model ----
(***************************************************************************)
(* A model of the scratch-assay quantification pipeline:                   *)
(*   scratch_analysis.py : detect_file_type, process_image_file,           *)
(*                         run_analysis                                    *)
(*   app.py              : read_image, process_images_in_folder and the    *)
(*                         "Run Analysis" button handler                   *)
(*                                                                         *)
(* Strings that the code takes apart (file names, extensions) are tuples   *)
(* of one-character strings.  A frame is its shape together with the       *)
(* entropy map skimage's entropy() yields for its normalized form; the     *)
(* map's values are integer levels, each the centre of its bin of the      *)
(* histogram threshold_otsu builds.  A percentage is the exact fraction    *)
(* [num, den] of the floating-point quotient.                              *)
(***************************************************************************)
EXTENDS Integers, Sequences, FiniteSets, TLC

VARIABLES
    uploaded,            \* the list of sources handed to run_analysis / the uploader
    pc,                  \* position in the code
    f_pos,               \* position of the for-loop over the sources (1-based)
    all_results,         \* run_analysis: all_results
    results,             \* process_image_file: results
    ext,                 \* process_image_file: ext
    temp_path,           \* process_image_file: temp_path
    temp_nd2,            \* process_image_file: temp_nd2.name
    frames,              \* process_image_file: frames / process_images_in_folder: frames
    member,              \* position of the loop over zip_ref.namelist()
    idx,                 \* enumerate(frames): idx
    e,                   \* the exception caught, with the line that raised it
    fs,                  \* paths that exist in the file system
    ntemp,               \* number of NamedTemporaryFile names handed out
    ent_img,             \* ent_img / entropy_filtered of the frame last segmented
    thresh,              \* thresh of the frame last segmented
    scratch_mask,        \* scratch_mask / binary of the frame last segmented
    results_df,          \* results_df (run_analysis) / st.session_state["results_df"]
    files_for_analysis,  \* app.py handler: files_for_analysis
    area_list,           \* process_images_in_folder: area_list
    i,                   \* process_images_in_folder: i
    warnings             \* st.warning / st.error messages shown

vars == <<uploaded, pc, f_pos, all_results, results, ext, temp_path, temp_nd2,
          frames, member, idx, e, fs, ntemp, ent_img, thresh, scratch_mask,
          results_df, files_for_analysis, area_list, i, warnings>>

scratchVars == <<all_results, results, ext, temp_path, temp_nd2, member, fs, ntemp>>  \* left alone by app.py
appVars     == <<files_for_analysis, area_list, i, warnings>>   \* left alone by scratch_analysis.py
segVars     == <<ent_img, thresh, scratch_mask>>

(***************************************************************************)
(* Bounds of the model.                                                    *)
(***************************************************************************)
MaxFiles   == 2    \* sources in one batch
MaxFrames  == 2    \* planes of one ND2 container / pages of one TIFF
MaxMembers == 2    \* members of one ZIP archive
MaxPix     == 4    \* pixels (h * w) of a frame of the segmentation runs
MaxEnt     == 3    \* highest entropy level of a frame of the segmentation runs

(***************************************************************************)
(* Values.                                                                 *)
(***************************************************************************)
NoExt   == << >>                                    \* detect_file_type's None
NoPath  == [tmp |-> FALSE, name |-> << >>, id |-> 0] \* temp_path = None
NoError == [msg |-> "", line |-> 0]
NoMask  == << >>
NoTable == <<"no table">>                           \* "results_df" not in session_state

UserPath(name)   == [tmp |-> FALSE, name |-> name, id |-> 0]
TempPath(suffix, n) == [tmp |-> TRUE, name |-> suffix, id |-> n]
Truthy(path)     == path.tmp \/ path.name # << >>

E_jpg  == <<".", "j", "p", "g">>
E_jpeg == <<".", "j", "p", "e", "g">>
E_png  == <<".", "p", "n", "g">>
E_jp2  == <<".", "j", "p", "2">>
E_nd2  == <<".", "n", "d", "2">>
E_zip  == <<".", "z", "i", "p">>
E_tif  == <<".", "t", "i", "f">>
E_tiff == <<".", "t", "i", "f", "f">>
E_txt  == <<".", "t", "x", "t">>

\* str.lower() on the characters that occur in the names of the model
LowerChar(c) ==
    CASE c = "J" -> "j" [] c = "P" -> "p" [] c = "G" -> "g" [] c = "E" -> "e"
      [] c = "N" -> "n" [] c = "D" -> "d" [] c = "Z" -> "z" [] c = "I" -> "i"
      [] c = "T" -> "t" [] c = "F" -> "f" [] c = "X" -> "x" [] c = "A" -> "a"
      [] OTHER -> c

lower(s) == [k \in 1..Len(s) |-> LowerChar(s[k])]

\* os.path.splitext(name)[1]: from the last dot on, unless that dot only
\* follows leading dots
splitext(name) ==
    LET dots == {k \in 1..Len(name) : name[k] = "."}
        last == CHOOSE k \in dots : \A j \in dots : j <= k
    IN  IF dots = {} THEN << >>
        ELSE IF \A j \in 1..(last - 1) : name[j] = "." THEN << >>
        ELSE SubSeq(name, last, Len(name))

\* imghdr.what(None, h=header_bytes): the type the first 32 bytes announce
imghdr_what(content) ==
    IF content.magic \in {"jpeg", "png", "tiff"} THEN content.magic ELSE "None"

KnownExts == {E_jpg, E_jpeg, E_png, E_jp2, E_nd2, E_zip}
StillExts == {E_jpg, E_jpeg, E_png, E_jp2}
InnerExts == {E_nd2, E_jpg, E_jpeg, E_png, E_jp2}

detect_file_type(file) ==
    LET x == lower(splitext(file.name))
    IN  IF x \in KnownExts THEN x
        ELSE IF imghdr_what(file.content) = "jpeg" THEN E_jpg
        ELSE IF imghdr_what(file.content) = "png" THEN E_png
        ELSE NoExt

(***************************************************************************)
(* Segmentation of one frame.                                              *)
(***************************************************************************)
RECURSIVE SumOver(_, _)
SumOver(map, S) ==
    IF S = {} THEN 0
    ELSE LET p == CHOOSE q \in S : TRUE IN map[p] + SumOver(map, S \ {p})

MinOf(map) == CHOOSE v \in {map[p] : p \in DOMAIN map} : \A p \in DOMAIN map : v <= map[p]
MaxOf(map) == CHOOSE v \in {map[p] : p \in DOMAIN map} : \A p \in DOMAIN map : v >= map[p]

\* weight1[t] * weight2[t+1] * (mean1[t] - mean2[t+1]) ** 2, as the fraction
\* (s1*w2 - s2*w1)^2 / (w1*w2)
Variance12(map, t) ==
    LET lo == {p \in DOMAIN map : map[p] <= t}
        hi == {p \in DOMAIN map : map[p] > t}
        w1 == Cardinality(lo)
        w2 == Cardinality(hi)
        d  == SumOver(map, lo) * w2 - SumOver(map, hi) * w1
    IN  [num |-> d * d, den |-> w1 * w2]

FracLess(a, b) == a.num * b.den < b.num * a.den

\* skimage.filters.threshold_otsu: the single value of a one-valued image,
\* else the first bin centre of greatest between-class variance
threshold_otsu(map) ==
    IF MinOf(map) = MaxOf(map) THEN map[1]
    ELSE LET T == MinOf(map)..(MaxOf(map) - 1)
             best == {t \in T : \A u \in T : ~FracLess(Variance12(map, t), Variance12(map, u))}
         IN  CHOOSE t \in best : \A u \in best : t <= u

\* ent_img < thresh
BelowThreshold(map, t) == [p \in DOMAIN map |-> map[p] < t]

\* np.sum(scratch_mask)
MaskSum(mask) == Cardinality({p \in DOMAIN mask : mask[p]})

\* a slip of ScratchPercentage: the area divided by the width alone
PercentageOfWidth(area, h, w) == [num |-> area * 100, den |-> w]

\* scratch_area_pix * 100.0 / (h * w)
ScratchPercentage(area, h, w) == [num |-> area * 100, den |-> h * w]

\* img.ndim == 3 and img.shape[2] in [3, 4]: rgb2gray drops the channel axis
\* (the frames of the model have 2 or 3 channels, or none)
Normalized(shape) ==
    IF Len(shape) = 3 /\ shape[3] \in {3, 4} THEN SubSeq(shape, 1, 2) ELSE shape

\* skimage.filters.rank.entropy with the 2-D footprint disk(5) takes 2-D images
EntropyRaises(shape) == Len(Normalized(shape)) # 2

(***************************************************************************)
(* Inputs: frames, file contents, sources.                                 *)
(***************************************************************************)
SeqsUpTo(S, n) == UNION {[1..k -> S] : k \in 0..n}
NonEmptySeqsUpTo(S, n) == UNION {[1..k -> S] : k \in 1..n}

Frame(shape, map) == [shape |-> shape, ent |-> map]

Textured   == Frame(<<2, 2>>, <<0, 1, 3, 3>>)      \* gap and cells: two entropy classes
Blank      == Frame(<<2, 2>>, <<0, 0, 0, 0>>)      \* uniform image: constant entropy map
TwoChannel == Frame(<<1, 2, 2>>, << >>)            \* gray + alpha: neither 2-D nor RGB(A)
Color      == Frame(<<2, 2, 3>>, <<0, 1, 3, 3>>)   \* RGB

SmallFrames == {Textured, Blank, TwoChannel, Color}
PlaneFrames == {Textured, Blank}                    \* the planes of a container are 2-D

\* every 2-D frame of at most MaxPix pixels with entropy levels 0..MaxEnt
SegFrames ==
    UNION {{Frame(<<h, w>>, map) : map \in [1..(h * w) -> 0..MaxEnt]} :
              <<h, w>> \in {hw \in (1..MaxPix) \X (1..MaxPix) : hw[1] * hw[2] <= MaxPix}}

Corrupt(magic)       == [kind |-> "corrupt", magic |-> magic, frames |-> << >>, members |-> << >>]
ImageContent(fmt, fr) == [kind |-> "image", magic |-> fmt, frames |-> <<fr>>, members |-> << >>]
Nd2Content(frs)      == [kind |-> "nd2", magic |-> "nd2", frames |-> frs, members |-> << >>]
TiffContent(frs)     == [kind |-> "image", magic |-> "tiff", frames |-> frs, members |-> << >>]
ZipContent(ms)       == [kind |-> "zip", magic |-> "zip", frames |-> << >>, members |-> ms]

File(name, buf, content) == [name |-> name, has_getbuffer |-> buf, content |-> content]

Stem == <<"a">>
ExtPool == {E_jpg, E_jpeg, E_png, E_jp2, E_nd2, E_zip, E_tif, E_tiff, E_txt,
            <<".", "P", "N", "G">>, <<".", "J", "p", "g">>, <<".", "J", "P", "E", "G">>,
            <<".", "J", "P", "2">>, <<".", "N", "D", "2">>, <<".", "Z", "i", "p">>,
            <<".", "T", "I", "F">>, <<".", "T", "i", "f", "f">>}
NamePool == {Stem} \cup {Stem \o x : x \in ExtPool}

StillContents ==
    {Corrupt("None"), Corrupt("jpeg"), Corrupt("png")}
    \cup {ImageContent(fmt, fr) : fmt \in {"jpeg", "png", "tiff"}, fr \in SmallFrames}

Members ==
    {[name |-> <<"x">> \o x, data |-> d] :
        x \in {E_png, E_nd2, E_txt},
        d \in {Corrupt("None"), ImageContent("png", Textured), ImageContent("png", TwoChannel),
               Nd2Content(<<Textured>>), Nd2Content(<<Textured, Blank>>)}}

\* the sources of the single-source runs
FileFamily ==
    {File(n, b, c) : n \in NamePool, b \in BOOLEAN, c \in StillContents}
    \cup {File(Stem \o x, b, Nd2Content(frs)) :
            x \in {E_nd2, <<".", "N", "D", "2">>}, b \in BOOLEAN,
            frs \in NonEmptySeqsUpTo(PlaneFrames, MaxFrames)}
    \cup {File(Stem \o E_zip, b, ZipContent(ms)) :
            b \in BOOLEAN, ms \in SeqsUpTo(Members, MaxMembers)}

PngMember(fr) == [name |-> <<"x">> \o E_png, data |-> ImageContent("png", fr)]
Nd2Member(c)  == [name |-> <<"x">> \o E_nd2, data |-> c]

\* the sources of the batch runs
BatchFiles ==
    {File(Stem \o E_png, TRUE, ImageContent("png", Textured)),
     File(Stem \o E_png, FALSE, ImageContent("png", Textured)),
     File(Stem \o E_png, TRUE, Corrupt("png")),
     File(Stem \o E_jpg, FALSE, Corrupt("None")),
     File(Stem \o E_tif, TRUE, ImageContent("tiff", Textured)),
     File(Stem \o E_txt, TRUE, Corrupt("None")),
     File(Stem \o E_zip, TRUE, ZipContent(<<PngMember(Textured), Nd2Member(Nd2Content(<<Textured>>))>>)),
     File(Stem \o E_zip, TRUE, ZipContent(<<PngMember(Textured), Nd2Member(Corrupt("None"))>>)),
     File(Stem \o E_zip, TRUE, ZipContent(<<PngMember(TwoChannel), PngMember(Textured)>>))}
    \cup {File(Stem \o E_nd2, TRUE, Nd2Content(frs)) :
            frs \in NonEmptySeqsUpTo({Textured, Blank}, MaxFrames)}

(***************************************************************************)
(* scratch_analysis.py: run_analysis and process_image_file.               *)
(***************************************************************************)
file == uploaded[f_pos]

\* pd.DataFrame(rows): one table row per record, in list order
DataFrame(rows) == rows

\* a slip of Extend: the new rows put in front of the rows collected
ExtendFront(list, more) == more \o list

\* all_results.extend(results)
Extend(list, more) == list \o more

\* what leaving the try block by an exception changes
Raise(msg, line) ==
    /\ e' = [msg |-> msg, line |-> line]
    /\ pc' = "except"

\* the record of one measured frame (lines 109-114)
FrameRecord(name, k, area, h, w) ==
    [File |-> <<"_">> \o name, Frame |-> k, Area |-> area,
     Percentage |-> ScratchPercentage(area, h, w)]

ErrorRecord(name, msg) == [File |-> name, Error |-> msg]

\* for f in uploaded_file_bytes_list: results = process_image_file(f) ... results = []
CallProcess ==
    /\ pc = "loop"
    /\ f_pos <= Len(uploaded)
    /\ pc' = "detect"
    /\ results' = << >>
    /\ ext' = NoExt
    /\ temp_path' = NoPath
    /\ temp_nd2' = NoPath
    /\ frames' = << >>
    /\ member' = 0
    /\ idx' = 0
    /\ e' = NoError
    /\ ent_img' = NoMask
    /\ thresh' = 0
    /\ scratch_mask' = NoMask
    /\ UNCHANGED <<uploaded, f_pos, all_results, fs, ntemp, results_df>>
    /\ UNCHANGED appVars

\* lines 50-54
Detect ==
    /\ pc = "detect"
    /\ ext' = detect_file_type(file)
    /\ IF ext' = NoExt
         THEN /\ results' = <<ErrorRecord(file.name, "Unsupported image type")>>
              /\ pc' = "return"
         ELSE /\ results' = results
              /\ pc' = "stage"
    /\ UNCHANGED <<uploaded, f_pos, all_results, temp_path, temp_nd2, frames, member,
                   idx, e, fs, ntemp, results_df>>
    /\ UNCHANGED <<segVars, appVars>>

\* lines 57-66
Stage ==
    /\ pc = "stage"
    /\ IF file.has_getbuffer
         THEN /\ temp_path' = TempPath(ext, ntemp + 1)
              /\ ntemp' = ntemp + 1
              /\ fs' = fs \cup {TempPath(ext, ntemp + 1)}
         ELSE /\ temp_path' = UserPath(file.name)
              /\ UNCHANGED <<ntemp, fs>>
    /\ frames' = << >>
    /\ pc' = "extract"
    /\ UNCHANGED <<uploaded, f_pos, all_results, results, ext, temp_nd2, member, idx,
                   e, results_df>>
    /\ UNCHANGED <<segVars, appVars>>

\* the decoder named finds, at temp_path, data it can parse
Opens(kind) == temp_path \in fs /\ file.content.kind = kind

\* lines 69-80
Extract ==
    /\ pc = "extract"
    /\ IF ext = E_nd2
         THEN IF Opens("nd2")
                THEN frames' = file.content.frames /\ pc' = "frames" /\ e' = e
                ELSE frames' = frames /\ Raise("ND2Reader: cannot read file", 70)
         ELSE IF ext \in StillExts
         THEN IF Opens("image")
                THEN frames' = <<file.content.frames[1]>> /\ pc' = "frames" /\ e' = e
                ELSE frames' = frames /\ Raise("cannot identify image file", 75)
         ELSE IF Opens("zip")
                THEN frames' = frames /\ pc' = "zip" /\ e' = e
                ELSE frames' = frames /\ Raise("File is not a zip file", 80)
    /\ member' = 1
    /\ UNCHANGED <<uploaded, f_pos, all_results, results, ext, temp_path, temp_nd2, idx,
                   fs, ntemp, results_df>>
    /\ UNCHANGED <<segVars, appVars>>

\* lines 81-95: one name of zip_ref.namelist()
ZipMember ==
    /\ pc = "zip"
    /\ member <= Len(file.content.members)
    /\ LET mem == file.content.members[member]
           inner_ext == lower(splitext(mem.name))
           path == TempPath(E_nd2, ntemp + 1)
       IN  IF inner_ext \notin InnerExts
             THEN /\ member' = member + 1
                  /\ UNCHANGED <<frames, temp_nd2, fs, ntemp, e, pc>>
           ELSE IF inner_ext = E_nd2
             THEN /\ temp_nd2' = path
                  /\ ntemp' = ntemp + 1
                  /\ IF mem.data.kind = "nd2"
                       THEN /\ frames' = frames \o mem.data.frames
                            /\ fs' = fs                  \* written, read, os.remove'd
                            /\ member' = member + 1
                            /\ UNCHANGED <<e, pc>>
                       ELSE /\ fs' = fs \cup {path}      \* os.remove is never reached
                            /\ Raise("ND2Reader: cannot read file", 90)
                            /\ UNCHANGED <<frames, member>>
           ELSE IF mem.data.kind = "image"
             THEN /\ frames' = Append(frames, mem.data.frames[1])
                  /\ member' = member + 1
                  /\ UNCHANGED <<temp_nd2, fs, ntemp, e, pc>>
             ELSE /\ Raise("cannot identify image file", 94)
                  /\ UNCHANGED <<frames, member, temp_nd2, fs, ntemp>>
    /\ UNCHANGED <<uploaded, f_pos, all_results, results, ext, temp_path, idx, results_df>>
    /\ UNCHANGED <<segVars, appVars>>

\* the end of the loop over the archive's names
ZipDone ==
    /\ pc = "zip"
    /\ member > Len(file.content.members)
    /\ pc' = "frames"
    /\ UNCHANGED <<uploaded, f_pos, all_results, results, ext, temp_path, temp_nd2, frames,
                   member, idx, e, fs, ntemp, results_df>>
    /\ UNCHANGED <<segVars, appVars>>

\* lines 98-114: one pass of the loop over the frames
ProcessFrame ==
    /\ pc = "frames"
    /\ idx < Len(frames)
    /\ LET img == frames[idx + 1]
           h == img.shape[1]
           w == img.shape[2]
       IN  IF EntropyRaises(img.shape)
             THEN /\ Raise("Image dimensions and neighborhood dimensions do not match", 103)
                  /\ UNCHANGED <<results, idx, segVars>>
             ELSE /\ ent_img' = img.ent
                  /\ thresh' = threshold_otsu(img.ent)
                  /\ scratch_mask' = BelowThreshold(img.ent, thresh')
                  /\ results' = Append(results,
                        FrameRecord(file.name, idx + 1, MaskSum(scratch_mask'), h, w))
                  /\ idx' = idx + 1
                  /\ UNCHANGED <<e, pc>>
    /\ UNCHANGED <<uploaded, f_pos, all_results, ext, temp_path, temp_nd2, frames, member,
                   fs, ntemp, results_df>>
    /\ UNCHANGED appVars

\* lines 117-118, reached when the loop over the frames ends
Cleanup ==
    /\ pc = "frames"
    /\ idx >= Len(frames)
    /\ fs' = IF Truthy(temp_path) /\ temp_path \in fs THEN fs \ {temp_path} ELSE fs
    /\ pc' = "return"
    /\ UNCHANGED <<uploaded, f_pos, all_results, results, ext, temp_path, temp_nd2, frames,
                   member, idx, e, ntemp, results_df>>
    /\ UNCHANGED <<segVars, appVars>>

\* lines 120-121
Except ==
    /\ pc = "except"
    /\ results' = Append(results, ErrorRecord(file.name, e.msg))
    /\ pc' = "return"
    /\ UNCHANGED <<uploaded, f_pos, all_results, ext, temp_path, temp_nd2, frames, member,
                   idx, e, fs, ntemp, results_df>>
    /\ UNCHANGED <<segVars, appVars>>

\* a slip of Return: a source that ended in an error ends the batch
ReturnStoppingOnError ==
    /\ pc = "return"
    /\ all_results' = Extend(all_results, results)
    /\ f_pos' = IF \E k \in 1..Len(results) : "Error" \in DOMAIN results[k]
                  THEN Len(uploaded) + 1 ELSE f_pos + 1
    /\ pc' = "loop"
    /\ UNCHANGED <<uploaded, results, ext, temp_path, temp_nd2, frames, member, idx, e,
                   fs, ntemp, results_df>>
    /\ UNCHANGED <<segVars, appVars>>

\* line 123 and line 137
Return ==
    /\ pc = "return"
    /\ all_results' = Extend(all_results, results)
    /\ f_pos' = f_pos + 1
    /\ pc' = "loop"
    /\ UNCHANGED <<uploaded, results, ext, temp_path, temp_nd2, frames, member, idx, e,
                   fs, ntemp, results_df>>
    /\ UNCHANGED <<segVars, appVars>>

\* lines 139-156, reached when the loop over the sources ends
Report ==
    /\ pc = "loop"
    /\ f_pos > Len(uploaded)
    /\ results_df' = DataFrame(all_results)
    /\ pc' = "done"
    /\ UNCHANGED <<uploaded, f_pos, all_results, results, ext, temp_path, temp_nd2, frames,
                   member, idx, e, fs, ntemp>>
    /\ UNCHANGED <<segVars, appVars>>

\* the state when run_analysis is entered with the list given; a source
\* without getbuffer names a file that exists
InitWith(list) ==
    /\ uploaded = list
    /\ pc = "loop"
    /\ f_pos = 1
    /\ all_results = << >>
    /\ results = << >>
    /\ ext = NoExt
    /\ temp_path = NoPath
    /\ temp_nd2 = NoPath
    /\ frames = << >>
    /\ member = 0
    /\ idx = 0
    /\ e = NoError
    /\ fs = {UserPath(list[k].name) : k \in {j \in 1..Len(list) : ~list[j].has_getbuffer}}
    /\ ntemp = 0
    /\ ent_img = NoMask
    /\ thresh = 0
    /\ scratch_mask = NoMask
    /\ results_df = NoTable
    /\ files_for_analysis = << >>
    /\ area_list = << >>
    /\ i = 1
    /\ warnings = << >>

\* the batches: every list of at most MaxFiles batch sources, every single
\* source of FileFamily, every single image of SegFrames
Batches ==
    SeqsUpTo(BatchFiles, MaxFiles)
    \cup {<<f>> : f \in FileFamily}
    \cup {<<File(Stem \o E_png, TRUE, ImageContent("png", fr))>> : fr \in SegFrames}

Init == \E list \in Batches : InitWith(list)

Next ==
    \/ CallProcess
    \/ Detect
    \/ Stage
    \/ Extract
    \/ ZipMember
    \/ ZipDone
    \/ ProcessFrame
    \/ Cleanup
    \/ Except
    \/ Return
    \/ Report

\* run_analysis over a batch
Spec == Init /\ [][Next]_vars

(***************************************************************************)
(* app.py: read_image, process_images_in_folder, the Run Analysis handler. *)
(***************************************************************************)
\* what read_image returns, or an object handed to process_images_in_folder:
\* an array (shape, entropy map, planes along its first axis), an ND2Reader
\* (planes) or an image object that is not iterable
\* (filename is << >> where the object has no such attribute)
NdArray(fr) == [type |-> "ndarray", shape |-> fr.shape, ent |-> fr.ent, planes |-> << >>,
                filename |-> << >>]
Stack(frs)  == [type |-> "ndarray", shape |-> <<Len(frs)>> \o frs[1].shape, ent |-> << >>,
                planes |-> frs, filename |-> << >>]
Reader(frs, fname) == [type |-> "ND2Reader", shape |-> << >>, ent |-> << >>, planes |-> frs,
                       filename |-> fname]
PilImage(fr) == [type |-> "Image", shape |-> fr.shape, ent |-> fr.ent, planes |-> << >>,
                 filename |-> << >>]

\* getattr(f, 'filename', default)
FilenameOr(f, default) == IF f.filename # << >> THEN f.filename ELSE <<default>>

\* Image.open(file).convert("L"): one channel
ConvertL(fr) == Frame(SubSeq(fr.shape, 1, 2), fr.ent)

\* read_image (lines 54-65): the value returned, or the error raised; ND2Reader
\* is taken to read a well-formed container from the upload it is given
read_image(upl) ==
    LET x == lower(splitext(upl.name))
        c == upl.content
    IN  IF x \in {E_jpg, E_jpeg, E_png, E_jp2}
          THEN IF c.kind = "image"
                 THEN [ok |-> TRUE, value |-> NdArray(ConvertL(c.frames[1])), msg |-> ""]
                 ELSE [ok |-> FALSE, value |-> Reader(<< >>, << >>), msg |-> "cannot identify image file"]
        ELSE IF x \in {E_tif, E_tiff}
          THEN IF c.kind = "image" /\ c.magic = "tiff"
                 THEN [ok |-> TRUE, msg |-> "",
                       value |-> IF Len(c.frames) = 1 THEN NdArray(c.frames[1]) ELSE Stack(c.frames)]
                 ELSE [ok |-> FALSE, value |-> Reader(<< >>, << >>), msg |-> "not a TIFF file"]
        ELSE IF x = E_nd2
          THEN IF c.kind = "nd2"
                 THEN [ok |-> TRUE, value |-> Reader(c.frames, upl.name), msg |-> ""]
                 ELSE [ok |-> FALSE, value |-> Reader(<< >>, << >>), msg |-> "ND2Reader: cannot read file"]
        ELSE [ok |-> FALSE, value |-> Reader(<< >>, << >>), msg |-> "Unsupported image type"]

\* isinstance(f, ND2Reader) or hasattr(f, '__iter__'): every numpy array is iterable
IsIterable(f) == f.type \in {"ND2Reader", "ndarray"}

\* list(f): the planes of a reader or of a stack; the rows of a 2-D array
ListOf(f) ==
    IF f.type = "ND2Reader" \/ Len(f.shape) = 3 THEN f.planes
    ELSE [k \in 1..f.shape[1] |-> Frame(Tail(f.shape), << >>)]

\* entropy_filtered <= thresh
AtOrBelowThreshold(map, t) == [p \in DOMAIN map |-> map[p] <= t]

\* h, w = frame.shape
UnpackRaises(shape) == Len(Normalized(shape)) # 2
UnpackError(shape) ==
    IF Len(Normalized(shape)) < 2 THEN "not enough values to unpack (expected 2, got 1)"
    ELSE "too many values to unpack (expected 2)"

AreaRecord(n, fname, k, area, h, w) ==
    [SrNo |-> n, Name |-> [folder |-> "Uploaded", file |-> fname, frame |-> k],
     ScratchArea |-> area, Percentage |-> ScratchPercentage(area, h, w)]

Warn(msg) == warnings' = Append(warnings, msg)

\* lines 142-148
Click ==
    /\ pc = "click"
    /\ IF uploaded = << >>
         THEN Warn("Please upload at least one file.") /\ pc' = "stopped"
         ELSE UNCHANGED warnings /\ pc' = "read"
    /\ files_for_analysis' = << >>
    /\ f_pos' = 1
    /\ UNCHANGED <<uploaded, frames, idx, e, results_df, area_list, i>>
    /\ UNCHANGED <<scratchVars, segVars>>

\* lines 149-151: one pass of the loop over the uploads
ReadImage ==
    /\ pc = "read"
    /\ f_pos <= Len(uploaded)
    /\ LET r == read_image(file)
       IN  IF r.ok
             THEN /\ files_for_analysis' = Append(files_for_analysis, r.value)
                  /\ f_pos' = f_pos + 1
                  /\ UNCHANGED <<e, pc>>
             ELSE /\ e' = [msg |-> r.msg, line |-> 150]
                  /\ pc' = "handler_except"
                  /\ UNCHANGED <<files_for_analysis, f_pos>>
    /\ UNCHANGED <<uploaded, frames, idx, results_df, area_list, i, warnings>>
    /\ UNCHANGED <<scratchVars, segVars>>

\* line 154 and lines 69-70
CallFolder ==
    /\ pc = "read"
    /\ f_pos > Len(uploaded)
    /\ area_list' = << >>
    /\ i' = 1
    /\ f_pos' = 1
    /\ pc' = "folder"
    /\ UNCHANGED <<uploaded, frames, idx, e, results_df, files_for_analysis, warnings>>
    /\ UNCHANGED <<scratchVars, segVars>>

folder_f == files_for_analysis[f_pos]

\* lines 73-75: an iterable object
FolderIterable ==
    /\ pc = "folder"
    /\ f_pos <= Len(files_for_analysis)
    /\ IsIterable(folder_f)
    /\ frames' = ListOf(folder_f)
    /\ idx' = 0
    /\ pc' = "folder_frames"
    /\ UNCHANGED <<uploaded, f_pos, e, results_df, files_for_analysis, area_list, i, warnings>>
    /\ UNCHANGED <<scratchVars, segVars>>

\* lines 76-92 and 112-113: one pass of the loop over the frames
FolderFrame ==
    /\ pc = "folder_frames"
    /\ idx < Len(frames)
    /\ LET frame == frames[idx + 1]
           shape == Normalized(frame.shape)
       IN  IF UnpackRaises(frame.shape)
             THEN /\ Warn(UnpackError(frame.shape))
                  /\ f_pos' = f_pos + 1
                  /\ pc' = "folder"
                  /\ UNCHANGED <<area_list, i, idx, segVars>>
             ELSE /\ ent_img' = frame.ent
                  /\ thresh' = threshold_otsu(frame.ent)
                  /\ scratch_mask' = AtOrBelowThreshold(frame.ent, thresh')
                  /\ area_list' = Append(area_list,
                        AreaRecord(i, FilenameOr(folder_f, "ND2_File"), idx + 1, MaskSum(scratch_mask'),
                                   shape[1], shape[2]))
                  /\ i' = i + 1
                  /\ idx' = idx + 1
                  /\ UNCHANGED <<f_pos, pc, warnings>>
    /\ UNCHANGED <<uploaded, frames, e, results_df, files_for_analysis>>
    /\ UNCHANGED scratchVars

\* the end of the loop over the frames
FolderFramesDone ==
    /\ pc = "folder_frames"
    /\ idx >= Len(frames)
    /\ f_pos' = f_pos + 1
    /\ pc' = "folder"
    /\ UNCHANGED <<uploaded, frames, idx, e, results_df, files_for_analysis, area_list, i,
                   warnings>>
    /\ UNCHANGED <<scratchVars, segVars>>

\* lines 93-113: an object that is not iterable
FolderSingle ==
    /\ pc = "folder"
    /\ f_pos <= Len(files_for_analysis)
    /\ ~IsIterable(folder_f)
    /\ LET shape == Normalized(folder_f.shape)
       IN  IF UnpackRaises(folder_f.shape)
             THEN /\ Warn(UnpackError(folder_f.shape))
                  /\ UNCHANGED <<area_list, i, segVars>>
             ELSE /\ ent_img' = folder_f.ent
                  /\ thresh' = threshold_otsu(folder_f.ent)
                  /\ scratch_mask' = AtOrBelowThreshold(folder_f.ent, thresh')
                  /\ area_list' = Append(area_list,
                        AreaRecord(i, FilenameOr(folder_f, "Image_File"), 0, MaskSum(scratch_mask'),
                                   shape[1], shape[2]))
                  /\ i' = i + 1
                  /\ UNCHANGED warnings
    /\ f_pos' = f_pos + 1
    /\ UNCHANGED <<uploaded, pc, frames, idx, e, results_df, files_for_analysis>>
    /\ UNCHANGED scratchVars

\* line 114, and lines 155-163 when the handler made the call (a call made
\* without the handler is the one with no uploads)
FolderReturn ==
    /\ pc = "folder"
    /\ f_pos > Len(files_for_analysis)
    /\ IF uploaded = << >>
         THEN pc' = "returned" /\ UNCHANGED results_df
         ELSE pc' = "chart" /\ results_df' = DataFrame(area_list)
    /\ UNCHANGED <<uploaded, f_pos, frames, idx, e, files_for_analysis, area_list, i, warnings>>
    /\ UNCHANGED <<scratchVars, segVars>>

\* lines 166-174: results_df['Sr. No.'] needs the column, which no row gives
Chart ==
    /\ pc = "chart"
    /\ IF results_df = << >>
         THEN e' = [msg |-> "KeyError: 'Sr. No.'", line |-> 167] /\ pc' = "handler_except"
         ELSE pc' = "done" /\ UNCHANGED e
    /\ UNCHANGED <<uploaded, f_pos, frames, idx, results_df, files_for_analysis, area_list,
                   i, warnings>>
    /\ UNCHANGED <<scratchVars, segVars>>

\* lines 176-178
HandlerExcept ==
    /\ pc = "handler_except"
    /\ Warn(e.msg)
    /\ pc' = "done"
    /\ UNCHANGED <<uploaded, f_pos, frames, idx, e, results_df, files_for_analysis,
                   area_list, i>>
    /\ UNCHANGED <<scratchVars, segVars>>

\* the uploads st.file_uploader lets through (type=[nd2, tif, tiff, jp2, jpg, jpeg])
Upload(x, c) == File(Stem \o x, TRUE, c)
AppFiles ==
    {Upload(x, c) : x \in {E_jpg, E_jp2, <<".", "J", "P", "E", "G">>},
                    c \in {ImageContent("jpeg", Textured), ImageContent("jpeg", Color),
                           ImageContent("jpeg", Blank), Corrupt("jpeg")}}
    \cup {Upload(x, c) : x \in {E_tif, E_tiff},
                         c \in {Corrupt("tiff")} \cup
                               {TiffContent(frs) : frs \in NonEmptySeqsUpTo({Textured, Blank}, MaxFrames)}}
    \cup {Upload(E_nd2, c) :
            c \in {Corrupt("None")} \cup
                  {Nd2Content(frs) : frs \in NonEmptySeqsUpTo(PlaneFrames, MaxFrames)}}

\* objects handed to process_images_in_folder by a direct call
FolderItems == {PilImage(fr) : fr \in SmallFrames} \cup {Reader(<<Textured, Blank>>, Stem \o E_nd2)}

InitApp ==
    /\ \/ /\ uploaded \in SeqsUpTo(AppFiles, MaxFiles)
          /\ pc = "click"
          /\ files_for_analysis = << >>
       \/ /\ uploaded = << >>
          /\ pc = "folder"
          /\ files_for_analysis \in NonEmptySeqsUpTo(FolderItems, MaxFiles)
    /\ f_pos = 1
    /\ all_results = << >>
    /\ results = << >>
    /\ ext = NoExt
    /\ temp_path = NoPath
    /\ temp_nd2 = NoPath
    /\ frames = << >>
    /\ member = 0
    /\ idx = 0
    /\ e = NoError
    /\ fs = {}
    /\ ntemp = 0
    /\ ent_img = NoMask
    /\ thresh = 0
    /\ scratch_mask = NoMask
    /\ results_df = NoTable
    /\ area_list = << >>
    /\ i = 1
    /\ warnings = << >>

NextApp ==
    \/ Click
    \/ ReadImage
    \/ CallFolder
    \/ FolderIterable
    \/ FolderFrame
    \/ FolderFramesDone
    \/ FolderSingle
    \/ FolderReturn
    \/ Chart
    \/ HandlerExcept

\* the Run Analysis handler over the uploads, and process_images_in_folder called alone
SpecApp == InitApp /\ [][NextApp]_vars

(***************************************************************************)
(* The claims.                                                             *)
(***************************************************************************)
IsError(r)    == "Error" \in DOMAIN r
IsMeasured(r) == "Percentage" \in DOMAIN r
HasFrame(r)   == "Frame" \in DOMAIN r

IsPrefix(a, b) == Len(a) <= Len(b) /\ SubSeq(b, 1, Len(a)) = a

\* the lines of process_image_file on which a decoder is called
ExtractLines == {70, 75, 80, 90, 94}

\* the source was not routed to an extractor, or its extraction raised
ExtractionFailed == ext = NoExt \/ e.line \in ExtractLines

\* the frames an intact archive holds: those of its members with an image extension
RECURSIVE MemberFrames(_)
MemberFrames(ms) ==
    IF ms = << >> THEN << >>
    ELSE (IF lower(splitext(Head(ms).name)) \in InnerExts THEN Head(ms).data.frames ELSE << >>)
         \o MemberFrames(Tail(ms))

\* a source whose bytes are not what its name announces: no decoder is tried,
\* or the decoder tried (by extension: ND2, still image) rejects them
FailingSource(f) ==
    LET x == lower(splitext(f.name))
    IN  \/ x \notin KnownExts /\ f.content.magic \notin {"jpeg", "png"}
        \/ x = E_nd2 /\ f.content.kind # "nd2"
        \/ x \in StillExts /\ f.content.kind # "image"
        \/ x = E_zip /\ f.content.kind # "zip"

\* a source whose bytes are what its name announces and whose frames are all
\* two-dimensional or RGB(A), with the frames it holds
ValidFrames(f) ==
    IF f.content.kind = "zip" THEN MemberFrames(f.content.members) ELSE f.content.frames
ValidSource(f) ==
    LET x == lower(splitext(f.name))
    IN  /\ \/ x = E_nd2 /\ f.content.kind = "nd2"
           \/ x \in StillExts /\ f.content.kind = "image"
           \/ /\ x = E_zip /\ f.content.kind = "zip"
              /\ \A k \in 1..Len(f.content.members) :
                    LET mem == f.content.members[k]
                        y == lower(splitext(mem.name))
                    IN  /\ y = E_nd2 => mem.data.kind = "nd2"
                        /\ y \in StillExts => mem.data.kind = "image"
        /\ \A k \in 1..Len(ValidFrames(f)) :
              Len(ValidFrames(f)[k].shape) = 2
              \/ (Len(ValidFrames(f)[k].shape) = 3 /\ ValidFrames(f)[k].shape[3] \in {3, 4})

ErrorRows(rows)    == {k \in 1..Len(rows) : IsError(rows[k])}
MeasuredRows(rows) == {k \in 1..Len(rows) : IsMeasured(rows[k])}

\* what process_image_file returns for a source that failed, and for one that did not
C1_ReturnedRows ==
    pc = "return" =>
        /\ ExtractionFailed =>
              /\ Len(results) = 1
              /\ IsError(results[1])
              /\ results[1].File = file.name
              /\ ~HasFrame(results[1])
        /\ (ext # NoExt /\ e = NoError) =>
              /\ Len(results) = Len(frames)
              /\ \A k \in 1..Len(results) : IsMeasured(results[k]) /\ results[k].Frame = k
\* a finished batch of one failing and one valid source
C1_MixedBatch ==
    (pc = "done" /\ Len(uploaded) = 2) =>
        \A c, v \in 1..2 :
            (FailingSource(uploaded[c]) /\ ValidSource(uploaded[v])) =>
                /\ Cardinality(ErrorRows(results_df)) = 1
                /\ Cardinality(MeasuredRows(results_df)) = Len(ValidFrames(uploaded[v]))
                /\ Len(results_df) = 1 + Len(ValidFrames(uploaded[v]))
                /\ \A k \in ErrorRows(results_df) : results_df[k].File = uploaded[c].name
\* the step after process_image_file returns
C1_Continues ==
    pc = "return" =>
        /\ pc' = "loop"
        /\ f_pos' = f_pos + 1
        /\ IsPrefix(all_results, all_results')
        /\ Len(all_results') = Len(all_results) + Len(results)
\* C1: file-level failure isolation.  When process_image_file returns for a
\* source that is unsupported or whose extraction raised, its result is exactly
\* one error record with the source's name and no frame index; when it returns
\* without an exception every frame has its measured record; after the return
\* the loop goes on to the next source with the rows collected so far kept; and
\* a finished batch of one corrupt and one valid source holds exactly one error
\* row and one measured row for each frame of the valid source.
C1_FileFailureIsolation ==
    /\ [](C1_ReturnedRows /\ C1_MixedBatch /\ (pc = "done" => f_pos = Len(uploaded) + 1))
    /\ [][C1_Continues]_vars

\* C1 witness: a finished batch of a corrupt and a valid two-frame source,
\* with its one error row and two measured rows
C1_Witness ==
    /\ pc = "done"
    /\ Len(uploaded) = 2
    /\ FailingSource(uploaded[1])
    /\ ValidSource(uploaded[2])
    /\ Len(ValidFrames(uploaded[2])) = 2
    /\ Len(results_df) = 3
    /\ IsError(results_df[1])

\* C2: frame-level failure isolation.  When process_image_file returns for a
\* source whose extraction succeeded, results holds exactly one record per
\* frame, measured or bearing that frame's error, the k-th for frame index k:
\* a frame that fails does not keep the frames after it from being recorded.
C2_OneRecordPerFrame ==
    (pc = "return" /\ ~ExtractionFailed) =>
        /\ Len(results) = Len(frames)
        /\ \A k \in 1..Len(results) : HasFrame(results[k]) => results[k].Frame = k

\* C3: when process_image_file returns, no file it staged exists any more:
\* neither the staged copy of a buffer-backed source nor a .nd2 copy taken
\* out of an archive.
C3_StagedFilesReleased ==
    pc = "return" =>
        /\ (file.has_getbuffer /\ Truthy(temp_path)) => temp_path \notin fs
        /\ Truthy(temp_nd2) => temp_nd2 \notin fs

\* the units of work of an upload: its frames, or the file itself
RECURSIVE UnitsOf(_)
UnitsOf(list) ==
    IF list = << >> THEN 0
    ELSE (IF Len(Head(list).content.frames) > 1 THEN Len(Head(list).content.frames) ELSE 1)
         + UnitsOf(Tail(list))

\* C4: when the Run Analysis handler has finished over a non-empty list of
\* uploads, the results table exists and holds at least one row per uploaded
\* file and per frame of a multi-frame file.
C4_NoMissingRow ==
    (pc = "done" /\ uploaded # << >>) =>
        /\ results_df # NoTable
        /\ Len(results_df) >= UnitsOf(uploaded)

\* C5: in every path that builds a scratch mask, a pixel is in the mask if
\* and only if its entropy is strictly less than the threshold.
C5_StrictlyBelowThreshold ==
    \A p \in DOMAIN scratch_mask : scratch_mask[p] <=> ent_img[p] < thresh

IsConstant(map) == \A p, q \in DOMAIN map : map[p] = map[q]

\* C6: no measured record (numeric area and percentage) is ever produced for
\* a frame whose entropy map is constant.
C6_DegenerateFrameIsError ==
    \A k \in 1..Len(results) :
        IsMeasured(results[k]) => ~IsConstant(frames[results[k].Frame].ent)

\* C7: every measured record of process_image_file has a positive pixel count
\* h * w, Percentage = Area * 100 / (h * w) with 0 <= Area <= h * w, so that
\* 0 <= Percentage <= 100; Percentage = 0 exactly when Area = 0 and
\* Percentage = 100 exactly when all h * w pixels are in the mask; and the
\* record just written counts the pixels of the mask just built.
C7_PercentageOfArea ==
    \A k \in 1..Len(results) :
        IsMeasured(results[k]) =>
            LET r == results[k]
                n == frames[r.Frame].shape[1] * frames[r.Frame].shape[2]
            IN  /\ n > 0
                /\ r.Percentage.den = n
                /\ r.Percentage.num = r.Area * 100
                /\ 0 <= r.Area /\ r.Area <= n
                /\ 0 <= r.Percentage.num /\ r.Percentage.num <= 100 * r.Percentage.den
                /\ (r.Percentage.num = 0) <=> (r.Area = 0)
                /\ (r.Percentage.num = 100 * r.Percentage.den) <=> (r.Area = n)
                /\ (k = idx /\ pc = "frames") =>
                      r.Area = Cardinality({p \in DOMAIN scratch_mask : scratch_mask[p]})

\* C7 witness: a measured record with some but not all pixels in the mask
C7_Witness ==
    /\ pc = "return"
    /\ \E k \in 1..Len(results) :
          /\ IsMeasured(results[k])
          /\ results[k].Area > 0
          /\ results[k].Percentage.num < 100 * results[k].Percentage.den

\* the rows a step appends to all_results
Appended == SubSeq(all_results', Len(all_results) + 1, Len(all_results'))

\* what one step may do to the rows collected
C8_AppendOnly ==
    /\ IsPrefix(all_results, all_results')
    /\ f_pos' >= f_pos
    /\ all_results' # all_results =>
          /\ f_pos' = f_pos + 1
          /\ \A k \in 1..Len(Appended) :
                /\ Appended[k].File \in {file.name, <<"_">> \o file.name}
                /\ HasFrame(Appended[k]) => Appended[k].Frame = k
                /\ IsError(Appended[k]) => k = Len(Appended)
\* C8: result ordering.  No step of run_analysis reorders, merges or removes
\* a row collected so far: rows are only appended, the position in the list of
\* sources never goes back, the rows appended belong to the source then being
\* processed and come in increasing frame index (an error row, if any, last);
\* and the table returned holds the rows in that order.
C8_ResultOrder ==
    /\ [][C8_AppendOnly]_vars
    /\ [](pc = "done" => results_df = all_results)

\* C8 witness: a finished batch of two sources of the same name, the second
\* with two frames, whose rows follow the first's
C8_Witness ==
    /\ pc = "done"
    /\ Len(uploaded) = 2
    /\ uploaded[1].name = uploaded[2].name
    /\ Len(results_df) = 3
    /\ IsError(results_df[1])
    /\ HasFrame(results_df[2]) /\ results_df[2].Frame = 1
    /\ HasFrame(results_df[3]) /\ results_df[3].Frame = 2

RecognizedExts == {E_jpg, E_jpeg, E_png, E_jp2, E_tif, E_tiff, E_nd2, E_zip}

\* C9: a source whose name ends, in any letter case, with a recognized
\* extension is never reported as 'Unsupported image type'.
C9_RecognizedNeverUnsupported ==
    (pc = "return" /\ lower(splitext(file.name)) \in RecognizedExts) =>
        \A k \in 1..Len(results) :
            ~(IsError(results[k]) /\ results[k].Error = "Unsupported image type")

\* C10: when process_image_file returns for a source that is not
\* buffer-backed, the file the source names still exists.
C10_SourceFileKept ==
    (pc = "return" /\ ~file.has_getbuffer) => UserPath(file.name) \in fs

====
